---- MODULE Spec2Model ----
(***************************************************************************)
(* Model of ppt_gen.py: PDF text extraction with a fallback library, the   *)
(* regular-expression outline parser, the deck assembler and the Streamlit *)
(* script main().  Text is a sequence of one-character strings; the three  *)
(* regular expressions are evaluated as Python's re module evaluates them  *)
(* (leftmost match, non-overlapping scan, greedy and lazy quantifiers).    *)
(***************************************************************************)
EXTENDS Integers, Sequences, FiniteSets, TLC

VARIABLES
    slide_structure,  \* parser input: the outline text (sequence of characters)
    parsed,           \* Optional result of parse_gemini_structure
    pdf,              \* extractor input: what each library yields for the stream
    run,              \* Optional record of one extract_text_from_pdf call
    ppt_title,        \* the 'Presentation Title' text input
    now,              \* datetime.now(): [day, hour]
    decks,            \* the create_presentation calls made so far, in order
    pdf_file,         \* Optional file held by the st.file_uploader widget
    session_state,    \* st.session_state: Optional pdf_text and slide_structure
    outline_of,       \* Optional pdf_text the stored outline was generated from
    ui,               \* the message the last run of main() ended with
    call,             \* Optional arguments of that run's create_presentation call
    disk              \* the temporary files present on disk

vars == <<slide_structure, parsed, pdf, run, ppt_title, now, decks,
          pdf_file, session_state, outline_of, ui, call, disk>>

(* ------------------------------ bounds --------------------------------- *)
MaxChunks == 5
MaxPages == 2
MaxHeaders == 12
MaxBuilds == 2
MaxDay == 2
MaxTmp == 2

(* --------------------------- configuration ----------------------------- *)
MAX_PDF_SIZE_MB == 50
MAX_SLIDES == 10
PROCESSING_CHUNK_SIZE == 15000
MIN_CONTENT_LENGTH == 100

(* ------------------------------ Optional ------------------------------- *)
None == <<>>
Some(x) == <<x>>

(* ---------------------------- idle values ----------------------------- *)
NoPdf == [n |-> 0]
StartOfDay == [day |-> 1, hour |-> 0]

ParseIdle == slide_structure = <<>> /\ parsed = None
ExtractIdle == pdf = NoPdf /\ run = None
DeckIdle == ppt_title = "" /\ now = StartOfDay /\ decks = <<>>
EmptySession == [pdf_text |-> None, slide_structure |-> None]
SessionIdle ==
    /\ pdf_file = None
    /\ session_state = EmptySession
    /\ outline_of = None
    /\ ui = ""
    /\ call = None
    /\ disk = {}
sessionVars == <<pdf_file, session_state, outline_of, ui, call, disk>>

(* --------------------------- character data ---------------------------- *)
NL == "\n"
Whitespace == {" ", NL, "\t", "\r"}
DigitChars == <<"0", "1", "2", "3", "4", "5", "6", "7", "8", "9">>
IsDigit(c) == \E d \in 1..10 : DigitChars[d] = c

SlidePrefix == <<"*", "*", "S", "l", "i", "d", "e", " ">>
StarStar == <<"*", "*">>
TitleLabel == <<"*", "*", "T", "i", "t", "l", "e", ":", "*", "*">>
SlideWord == <<"S", "l", "i", "d", "e", " ">>

RECURSIVE ToDigits(_)
\* str(n) for n >= 0
ToDigits(n) ==
    IF n < 10 THEN <<DigitChars[n + 1]>>
    ELSE ToDigits(n \div 10) \o <<DigitChars[(n % 10) + 1]>>

StartsWithAt(s, p, lit) ==
    /\ p >= 1
    /\ p + Len(lit) - 1 <= Len(s)
    /\ SubSeq(s, p, p + Len(lit) - 1) = lit

\* the least element of a set of positions, 0 for the empty set
FirstOf(S) == IF S = {} THEN 0 ELSE CHOOSE p \in S : \A q \in S : p <= q

RECURSIVE SkipDigits(_, _)
\* \d+ (greedy): index of the first non-digit at or after q
SkipDigits(s, q) ==
    IF q <= Len(s) /\ IsDigit(s[q]) THEN SkipDigits(s, q + 1) ELSE q

RECURSIVE SkipWS(_, _)
\* \s* (greedy): index of the first non-whitespace character at or after q
SkipWS(s, q) ==
    IF q <= Len(s) /\ s[q] \in Whitespace THEN SkipWS(s, q + 1) ELSE q

RECURSIVE LineEnd(_, _)
\* (.*) greedy, '.' excludes the newline: index of the last character taken
LineEnd(s, q) ==
    IF q <= Len(s) /\ s[q] # NL THEN LineEnd(s, q + 1) ELSE q - 1

RECURSIVE LazyClose(_, _)
\* .*?\*\* : the nearest closing "**" on the same line; the index of its
\* second star, 0 when there is none
LazyClose(s, q) ==
    IF StartsWithAt(s, q, StarStar) THEN q + 1
    ELSE IF q > Len(s) \/ s[q] = NL THEN 0
    ELSE LazyClose(s, q + 1)

\* r'\*\*Slide \d+:.*?\*\*' anchored at p: index of the match's last
\* character, 0 when the pattern does not match at p
HeaderEndAt(s, p) ==
    IF ~StartsWithAt(s, p, SlidePrefix) THEN 0
    ELSE LET d0 == p + Len(SlidePrefix)
             d1 == SkipDigits(s, d0)
         IN  IF d1 = d0 \/ d1 > Len(s) \/ s[d1] # ":" THEN 0
             ELSE LazyClose(s, d1 + 1)

\* the positions of s at which the header pattern matches
HeaderStarts(s) == {p \in 1..Len(s) : s[p] = "*" /\ HeaderEndAt(s, p) > 0}

\* the leftmost match at or after pos, 0 if none (the regex engine's scan)
NextHeader(starts, pos) == FirstOf({p \in starts : p >= pos})

RECURSIVE FindallFrom(_, _, _)
FindallFrom(s, starts, pos) ==
    LET p == NextHeader(starts, pos)
    IN  IF p = 0 THEN <<>>
        ELSE LET e == HeaderEndAt(s, p)
             IN  <<SubSeq(s, p, e)>> \o FindallFrom(s, starts, e + 1)

\* re.findall(header, s): the non-overlapping matches, left to right
re_findall_header(s) == FindallFrom(s, HeaderStarts(s), 1)

RECURSIVE SplitFrom(_, _, _)
SplitFrom(s, starts, pos) ==
    LET p == NextHeader(starts, pos)
    IN  IF p = 0 THEN <<SubSeq(s, pos, Len(s))>>
        ELSE <<SubSeq(s, pos, p - 1)>> \o SplitFrom(s, starts, HeaderEndAt(s, p) + 1)

\* re.split(header, s): the pieces before, between and after the matches
re_split_header(s) == SplitFrom(s, HeaderStarts(s), 1)

RECURSIVE LStrip(_, _)
LStrip(s, chars) ==
    IF s # <<>> /\ Head(s) \in chars THEN LStrip(Tail(s), chars) ELSE s

RECURSIVE RStrip(_, _)
RStrip(s, chars) ==
    IF s # <<>> /\ s[Len(s)] \in chars
    THEN RStrip(SubSeq(s, 1, Len(s) - 1), chars) ELSE s

\* str.strip(chars)
PyStrip(s, chars) == RStrip(LStrip(s, chars), chars)

RECURSIVE FindLabel(_, _)
\* leftmost position of '**Title:**' at or after p, 0 when absent
FindLabel(s, p) ==
    IF p > Len(s) THEN 0
    ELSE IF StartsWithAt(s, p, TitleLabel) THEN p
    ELSE FindLabel(s, p + 1)

\* re.search(r'\*\*Title:\*\*\s*(.*)', content): Optional group(1)
title_match(content) ==
    LET p == FindLabel(content, 1)
    IN  IF p = 0 THEN None
        ELSE LET q == SkipWS(content, p + Len(TitleLabel))
             IN  Some(SubSeq(content, q, LineEnd(content, q)))

\* line 107; i is the 0-based index of enumerate()
SlideTitle(content, i) ==
    LET m == title_match(content)
    IN  IF m # None THEN PyStrip(m[1], Whitespace)
        ELSE SlideWord \o ToDigits(i + 2)

RECURSIVE re_findall_bullets(_, _)
\* re.findall(r'\*\s+(.*)', content): group(1) of every match from pos on
re_findall_bullets(s, pos) ==
    IF pos > Len(s) THEN <<>>
    ELSE IF s[pos] = "*" /\ pos + 1 <= Len(s) /\ s[pos + 1] \in Whitespace
    THEN LET q == SkipWS(s, pos + 1)
             e == LineEnd(s, q)
         IN  <<SubSeq(s, q, e)>> \o re_findall_bullets(s, e + 1)
    ELSE re_findall_bullets(s, pos + 1)

\* line 105 with slides[i] read in place of slides[i+1]
SlideContent_OwnIndex(slides, i) ==
    IF i < Len(slides) THEN slides[i + 1] ELSE <<>>

\* line 105; i is the 0-based index of enumerate()
SlideContent(slides, i) ==
    IF i + 1 < Len(slides) THEN slides[i + 2] ELSE <<>>

parse_gemini_structure(text) ==
    LET slides == re_split_header(text)
        headers == re_findall_header(text)
    IN  [k \in 1..Len(headers) |->
            LET content == SlideContent(slides, k - 1)
            IN  [title |-> SlideTitle(content, k - 1),
                 bullets |-> re_findall_bullets(content, 1)]]

(* ----------------------- extract_text_from_pdf ------------------------- *)
\* Extracted text is kept as the sequence of page blocks appended to it; a
\* block f"\n\n[Page {i+1}]\n{page_text}" is known by the library that read
\* it, its page number and the length of page_text.
PageBlock(lib, page, chars) == [lib |-> lib, page |-> page, chars |-> chars]

\* len(f"\n\n[Page {i+1}]\n{page_text}")
BlockLen(b) == Len(<<NL, NL, "[", "P", "a", "g", "e", " ">>) + Len(ToDigits(b.page))
               + Len(<<"]", NL>>) + b.chars

RECURSIVE TextLen(_)
\* len(text)
TextLen(text) == IF text = <<>> THEN 0 ELSE BlockLen(Head(text)) + TextLen(Tail(text))

RECURSIVE PageLoop(_, _, _, _, _)
\* the page loop of lines 47-52 / 60-65: pages[i] is the length of what
\* page.extract_text() yields for page i (0: nothing), fail the page whose
\* extraction raises (Len(pages) + 1: none)
PageLoop(lib, pages, fail, i, text) ==
    IF i > Len(pages) THEN [text |-> text, raised |-> FALSE]
    ELSE IF fail = i THEN [text |-> text, raised |-> TRUE]
    ELSE LET text2 == IF pages[i] > 0
                      THEN Append(text, PageBlock(lib, i, pages[i])) ELSE text
         IN  IF TextLen(text2) > PROCESSING_CHUNK_SIZE
             THEN [text |-> text2, raised |-> FALSE]
             ELSE PageLoop(lib, pages, fail, i + 1, text2)

\* one try block: fail = 0 means that opening the stream already raises
LibraryPass(lib, pages, fail, text) ==
    IF fail = 0 THEN [text |-> text, raised |-> TRUE]
    ELSE PageLoop(lib, pages, fail, 1, text)

\* line 56
NeedsFallback(text) == TextLen(text) < MIN_CONTENT_LENGTH

\* line 69
Sufficient(text) == TextLen(text) > MIN_CONTENT_LENGTH

InsufficientText == "Failed to extract sufficient text (document may be scanned)"

\* The call's return value (text, error) together with what it did on the
\* way: the stream operations and warnings in order, the text after the
\* primary pass and the text accumulated at the end.
extract_text_from_pdf(f) ==
    LET p1 == LibraryPass("pdfplumber", f.plumber, f.plumber_fail, <<>>)
        ev1 == <<"seek0", "pdfplumber">>
               \o (IF p1.raised THEN <<"warning pdfplumber failed">> ELSE <<>>)
        fb == NeedsFallback(p1.text)
        p2 == IF fb
              THEN LibraryPass("PyPDF2", f.pypdf, f.pypdf_fail, p1.text)
              ELSE [text |-> p1.text, raised |-> FALSE]
        ev2 == IF fb
               THEN <<"seek0", "PyPDF2">>
                    \o (IF p2.raised THEN <<"warning PyPDF2 failed">> ELSE <<>>)
               ELSE <<>>
    IN  [text |-> IF Sufficient(p2.text) THEN Some(p2.text) ELSE None,
         error |-> IF Sufficient(p2.text) THEN None ELSE Some(InsufficientText),
         events |-> ev1 \o ev2,
         primary |-> p1,
         accumulated |-> p2.text]

(* -------------------------- extractor inputs --------------------------- *)
PageLens == {0, 44, 89, 15000}

PdfFiles(sizes) ==
    UNION {[n : {n}, size : sizes,
            plumber : [1..n -> PageLens], plumber_fail : 0..(n + 1),
            pypdf : [1..n -> PageLens], pypdf_fail : 0..(n + 1)] : n \in 1..MaxPages}

InitExtract ==
    /\ pdf \in PdfFiles({1})
    /\ run = None
    /\ ParseIdle
    /\ DeckIdle
    /\ SessionIdle

ExtractCall ==
    /\ run = None
    /\ run' = Some(extract_text_from_pdf(pdf))
    /\ UNCHANGED <<pdf, slide_structure, parsed, ppt_title, now, decks, sessionVars>>

NextExtract == ExtractCall

SpecExtract == InitExtract /\ [][NextExtract]_vars

\* C1: extract_text_from_pdf returns (text, no error) exactly when the text
\* accumulated by the primary and the fallback pass has at least
\* MIN_CONTENT_LENGTH characters, and (no text, reason) otherwise; exactly
\* 100 accumulated characters are a success.
C1_SuccessIffAtLeastMin ==
    run # None =>
        LET r == run[1]
        IN  IF TextLen(r.accumulated) >= MIN_CONTENT_LENGTH
            THEN r.text = Some(r.accumulated) /\ r.error = None
            ELSE r.text = None /\ r.error = Some(InsufficientText)

IsPrefix(a, b) == Len(a) <= Len(b) /\ SubSeq(b, 1, Len(a)) = a

FallbackRan(r) == \E k \in 1..Len(r.events) : r.events[k] = "PyPDF2"

\* C9: the fallback extractor runs, on the rewound stream, whenever the
\* primary extractor raised or yielded fewer than MIN_CONTENT_LENGTH
\* characters (also when it raised after accumulating 100 or more), appends
\* to the primary pass's text, and does not run otherwise.
C9_FallbackWhenRaisedOrShort ==
    run # None =>
        LET r == run[1]
        IN  /\ FallbackRan(r) <=>
                  (r.primary.raised \/ TextLen(r.primary.text) < MIN_CONTENT_LENGTH)
            /\ \A k \in 1..Len(r.events) :
                  r.events[k] = "PyPDF2" => k > 1 /\ r.events[k - 1] = "seek0"
            /\ IsPrefix(r.primary.text, r.accumulated)

(* --------------------------- parser inputs ----------------------------- *)
SlideOpen == SlidePrefix \o <<"1", ":">>
Chunks == {SlideOpen, StarStar, TitleLabel, <<"*">>, <<" ">>, <<NL>>, <<"x">>}

RECURSIVE Flatten(_)
Flatten(cs) == IF cs = <<>> THEN <<>> ELSE Head(cs) \o Flatten(Tail(cs))

Texts == {Flatten(cs) : cs \in UNION {[1..n -> Chunks] : n \in 0..MaxChunks}}

InitParse ==
    /\ slide_structure \in Texts
    /\ parsed = None
    /\ ExtractIdle
    /\ DeckIdle
    /\ SessionIdle

ParseCall ==
    /\ parsed = None
    /\ parsed' = Some(parse_gemini_structure(slide_structure))
    /\ UNCHANGED <<slide_structure, pdf, run, ppt_title, now, decks, sessionVars>>

NextParse == ParseCall

SpecParse == InitParse /\ [][NextParse]_vars

(* ------------------------- create_presentation ------------------------- *)
Min(a, b) == IF a < b THEN a ELSE b

\* the characters of "-•* "; "u2022" stands for the bullet glyph U+2022
BulletGlyphs == {"-", "u2022", "*", " "}

Introduction == <<"I", "n", "t", "r", "o", "d", "u", "c", "t", "i", "o", "n">>
KeyPointsMissing ==
    <<"K", "e", "y", " ", "p", "o", "i", "n", "t", "s", " ", "m", "i", "s", "s",
      "i", "n", "g", " ", "f", "r", "o", "m", " ", "A", "I", " ", "o", "u", "t",
      "p", "u", "t">>

\* strftime('%d %B %Y') with the hour kept in the output
strftime_WithHour(t) == <<"date", t.day, "hour", t.hour>>

\* strftime('%d %B %Y'): the calendar date, the time of day is dropped
strftime_dBY(t) == <<"date", t.day>>

\* lines 119-122
TitleSlide(title, t) ==
    [title |-> title, body |-> <<<<"Generated on", strftime_dBY(t)>>>>]

\* lines 126-128
OrFallback(parsed_slides) ==
    IF parsed_slides = <<>>
    THEN <<[title |-> Introduction, bullets |-> <<KeyPointsMissing>>]>>
    ELSE parsed_slides

\* parsed_slides[:MAX_SLIDES] taken without the cap
CapSlides_NoCap(parsed_slides) == parsed_slides

\* line 130: parsed_slides[:MAX_SLIDES]
CapSlides(parsed_slides) ==
    SubSeq(parsed_slides, 1, Min(Len(parsed_slides), MAX_SLIDES))

\* line 142
ParaText(bullet) == PyStrip(PyStrip(bullet, BulletGlyphs), Whitespace)

\* lines 131-146: text_frame.clear() leaves one empty paragraph, which the
\* first bullet fills
ContentSlide(rec) ==
    [title |-> rec.title,
     body |-> IF rec.bullets = <<>> THEN <<<<>>>>
              ELSE [i \in 1..Len(rec.bullets) |-> ParaText(rec.bullets[i])]]

\* lines 130-146: one content slide per record shown
ContentSlides(shown) == [i \in 1..Len(shown) |-> ContentSlide(shown[i])]

\* lines 114-146: the slides of prs when save is reached
DeckSlides(title, structure, t) ==
    <<TitleSlide(title, t)>>
    \o ContentSlides(CapSlides(OrFallback(parse_gemini_structure(structure))))

\* fault names the statement that raises: "render" one of lines 114-146
\* (no temporary file exists yet), "save" prs.save at line 149 (the file of
\* line 148 exists), anything else none.  The result tells what the call
\* returned, whether it left a temporary file behind and what that holds.
create_presentation(title, structure, t, fault) ==
    IF fault = "render"
    THEN [path |-> None, created |-> FALSE, deck |-> None,
          message |-> "PPT creation failed"]
    ELSE IF fault = "save"
    THEN [path |-> None, created |-> TRUE, deck |-> None,
          message |-> "PPT creation failed"]
    ELSE [path |-> Some("tmp.pptx"), created |-> TRUE,
          deck |-> Some(DeckSlides(title, structure, t)), message |-> ""]

(* ---------------------------- deck inputs ------------------------------ *)
BodyFull ==
    <<NL, "*", " ">> \o TitleLabel \o <<" ", "T", " ", NL, " ", "*", " ", "-", " ", "b", NL>>

SlideHeader(i) == SlidePrefix \o ToDigits(i) \o <<":", " ", "h", "*", "*">>

Body(variant, i) ==
    IF variant = "full" \/ (variant = "mixed" /\ i % 2 = 1) THEN BodyFull ELSE <<>>

\* an outline of k headers, numbered from 2 as the prompt asks
Outline(k, variant) ==
    Flatten([i \in 1..k |-> SlideHeader(i + 1) \o Body(variant, i)])

DeckOutlines ==
    {Outline(k, "mixed") : k \in 0..MaxHeaders}
    \cup {Outline(k, v) : k \in 1..2, v \in {"bare", "full"}}

Titles == {"Business Report", "Q3 Review"}

InitDeck ==
    /\ ppt_title \in Titles
    /\ slide_structure \in DeckOutlines
    /\ now = StartOfDay
    /\ decks = <<>>
    /\ parsed = None
    /\ ExtractIdle
    /\ SessionIdle

\* one call of create_presentation at the current time
Build(fault) ==
    /\ Len(decks) < MaxBuilds
    /\ decks' = Append(decks, [at |-> now,
                               result |-> create_presentation(ppt_title, slide_structure, now, fault)])
    /\ UNCHANGED <<slide_structure, parsed, pdf, run, ppt_title, now, sessionVars>>

BuildCall == \E fault \in {"none", "save"} : Build(fault)

\* the wall clock passes noon
Tick ==
    /\ now.hour = 0
    /\ now' = [now EXCEPT !.hour = 12]
    /\ UNCHANGED <<slide_structure, parsed, pdf, run, ppt_title, decks, sessionVars>>

\* midnight passes
NextDay ==
    /\ now.day < MaxDay
    /\ now' = [day |-> now.day + 1, hour |-> 0]
    /\ UNCHANGED <<slide_structure, parsed, pdf, run, ppt_title, decks, sessionVars>>

NextDeck == BuildCall \/ Tick \/ NextDay

SpecDeck == InitDeck /\ [][NextDeck]_vars

(* ---------------------------- deck claims ------------------------------ *)
Built(k) == k \in 1..Len(decks) /\ decks[k].result.deck # None

\* C5: a built deck has the title slide followed by min(K, MAX_SLIDES)
\* content slides for the first records in order when the outline parses to
\* K >= 1 records, and the title slide plus the 'Introduction' fallback
\* slide when K = 0; a record without bullets still has its slide.
C5_SlideCount ==
    \A recs \in {parse_gemini_structure(slide_structure)} :
        \A k \in 1..Len(decks) :
            Built(k) =>
                LET slides == decks[k].result.deck[1]
                    K == Len(recs)
                IN  /\ slides[1].title = ppt_title
                    /\ IF K = 0
                       THEN /\ Len(slides) = 2
                            /\ slides[2] = [title |-> Introduction,
                                            body |-> <<KeyPointsMissing>>]
                       ELSE /\ Len(slides) = 1 + Min(K, MAX_SLIDES)
                            /\ \A i \in 1..Min(K, MAX_SLIDES) :
                                  /\ slides[i + 1].title = recs[i].title
                                  /\ recs[i].bullets # <<>> =>
                                        Len(slides[i + 1].body) = Len(recs[i].bullets)

\* a deck built from more records than the cap, one of them without bullets
C5_Witness ==
    /\ Built(1)
    /\ Len(decks[1].result.deck[1]) = 1 + MAX_SLIDES
    /\ \E recs \in {parse_gemini_structure(slide_structure)} :
          /\ Len(recs) > MAX_SLIDES
          /\ \E i \in 1..MAX_SLIDES : recs[i].bullets = <<>>

\* C8: two calls with the same title and outline give decks with the same
\* number of slides and the same text on every slide, the title slide's
\* 'Generated on ...' text included, whenever the calls happen.
C8_SameDeckWhenever ==
    \A j, k \in 1..Len(decks) :
        Built(j) /\ Built(k) => decks[j].result.deck = decks[k].result.deck

\* C8 as amended: the same number of slides and the same text on every slide
\* apart from the 'Generated on ...' text, which is the same when the two
\* calls happen on the same calendar day.
C8_SameDeckSameDay ==
    \A j, k \in 1..Len(decks) :
        Built(j) /\ Built(k) =>
            LET a == decks[j].result.deck[1]
                b == decks[k].result.deck[1]
            IN  /\ Len(a) = Len(b)
                /\ a[1].title = b[1].title
                /\ \A i \in 2..Len(a) : a[i] = b[i]
                /\ decks[j].at.day = decks[k].at.day => a = b

\* two decks built at different hours of the same day
C8_Witness ==
    /\ Built(1) /\ Built(2)
    /\ decks[1].at.day = decks[2].at.day
    /\ decks[1].at.hour # decks[2].at.hour
    /\ Len(decks[1].result.deck[1]) > 2

(* -------------------------------- main --------------------------------- *)
\* line 164
TooLarge(f) == f.size > MAX_PDF_SIZE_MB * 1024 * 1024

GenerationFailed == "Structure generation failed"

\* lines 94-97: reply is what model.generate_content answers, None when the
\* call or the access to response.text raises
generate_slide_structure(reply) ==
    IF reply = None THEN [text |-> None, error |-> Some(GenerationFailed)]
    ELSE [text |-> Some(PyStrip(reply[1], Whitespace)), error |-> None]

\* lines 169-173: the extracted text is stored only when there is no error
AfterExtract(ss, r) ==
    IF r.error # None THEN ss ELSE [ss EXCEPT !.pdf_text = r.text]

\* lines 179-183 with the outline stored whether or not there is an error
AfterAnalyze_StoreAlways(ss, g) == [ss EXCEPT !.slide_structure = g.text]

\* lines 179-183: the outline is stored only when there is no error
AfterAnalyze(ss, g) ==
    IF g.error # None THEN ss ELSE [ss EXCEPT !.slide_structure = g.text]

\* tempfile.NamedTemporaryFile: a name not in use
FreshName(files) == CHOOSE n \in 1..(Cardinality(files) + 1) : n \notin files

\* lines 193-206 after create_presentation returned res, the temporary file
\* (if one was created) being tmp.  fault names the statement that raises:
\* "read" lines 194-195, "ui" lines 196-202, "unlink" line 204.
ServeDeck(res, tmp, files, fault) ==
    LET onDisk == IF res.created THEN files \cup {tmp} ELSE files
    IN  IF res.path = None THEN [ui |-> res.message, disk |-> onDisk]
        ELSE IF fault \in {"read", "ui"} THEN [ui |-> "uncaught exception", disk |-> onDisk]
        ELSE IF fault = "unlink" THEN [ui |-> "success", disk |-> onDisk]
        ELSE [ui |-> "success", disk |-> onDisk \ {tmp}]

\* lines 163-173 of one run of main(): what the run shows and stores before
\* it reaches the title input, and whether it returns there
Upper(file, ss) ==
    IF file = None THEN [stop |-> TRUE, ui |-> "", ss |-> ss, pdf_text |-> None]
    ELSE IF TooLarge(file[1])
    THEN [stop |-> TRUE, ui |-> "File too large", ss |-> ss, pdf_text |-> None]
    ELSE LET r == extract_text_from_pdf(file[1])
         IN  [stop |-> r.error # None,
              ui |-> IF r.error # None THEN r.error[1] ELSE "",
              ss |-> AfterExtract(ss, r),
              pdf_text |-> r.text]

\* the 'Analyze Document' button is drawn (line 177 is reached)
AnalyzeShown == ~Upper(pdf_file, session_state).stop

\* the text area and the 'Generate PowerPoint' button are drawn (line 187)
EditorShown == AnalyzeShown /\ session_state.slide_structure # None

(* --------------------------- session inputs ---------------------------- *)
PdfReport ==
    [n |-> 1, size |-> 1, plumber |-> <<15000>>, plumber_fail |-> 2,
     pypdf |-> <<15000>>, pypdf_fail |-> 2]
PdfMemo ==
    [n |-> 2, size |-> 1, plumber |-> <<44, 89>>, plumber_fail |-> 0,
     pypdf |-> <<44, 89>>, pypdf_fail |-> 3]
PdfScan ==
    [n |-> 1, size |-> 1, plumber |-> <<0>>, plumber_fail |-> 2,
     pypdf |-> <<0>>, pypdf_fail |-> 2]
PdfHuge == [PdfReport EXCEPT !.size = MAX_PDF_SIZE_MB * 1024 * 1024 + 1]

SessionPdfs == {PdfReport, PdfMemo, PdfScan, PdfHuge}

Replies == {None, Some(<<>>), Some(<<" ">> \o Outline(2, "mixed") \o <<NL>>)}

\* what the text area can hold: the stored outline as it is or edited
Edits(stored) == {stored, stored \o SlideHeader(9) \o BodyFull, <<>>}

InitSession ==
    /\ SessionIdle
    /\ ppt_title = "Business Report"
    /\ now = StartOfDay
    /\ decks = <<>>
    /\ ParseIdle
    /\ ExtractIdle

otherVars == <<slide_structure, parsed, pdf, run, now, decks>>

\* a run of main() in which no button is pressed
RunIdle(file, title) ==
    LET u == Upper(file, session_state)
    IN  /\ pdf_file' = file
        /\ ppt_title' = title
        /\ session_state' = u.ss
        /\ ui' = u.ui
        /\ call' = None
        /\ UNCHANGED <<outline_of, disk, otherVars>>

\* the user uploads or replaces the file
Upload == \E f \in SessionPdfs : RunIdle(Some(f), ppt_title)

\* the user removes the file
RemoveFile == pdf_file # None /\ RunIdle(None, ppt_title)

\* the user types another title
EditTitle ==
    /\ AnalyzeShown
    /\ \E t \in Titles \ {ppt_title} : RunIdle(pdf_file, t)

\* the user presses 'Analyze Document' (lines 177-185)
ClickAnalyze ==
    /\ AnalyzeShown
    /\ \E reply \in Replies :
          LET u == Upper(pdf_file, session_state)
              g == generate_slide_structure(reply)
          IN  /\ session_state' = AfterAnalyze(u.ss, g)
              /\ outline_of' = IF g.error # None THEN outline_of ELSE u.pdf_text
              /\ ui' = IF g.error # None THEN g.error[1] ELSE "preview"
              /\ call' = None
              /\ UNCHANGED <<pdf_file, ppt_title, disk, otherVars>>

\* the user presses 'Generate PowerPoint' (lines 187-206)
ClickGenerate ==
    /\ EditorShown
    /\ Cardinality(disk) < MaxTmp
    /\ \E edited \in Edits(session_state.slide_structure[1]),
          fault \in {"none", "render", "save", "read", "ui", "unlink"} :
          LET u == Upper(pdf_file, session_state)
              res == create_presentation(ppt_title, edited, now, fault)
              out == ServeDeck(res, FreshName(disk), disk, fault)
          IN  /\ session_state' = u.ss
              /\ call' = Some([ppt_title |-> ppt_title, slide_structure |-> edited,
                               pdf_text |-> u.ss.pdf_text[1]])
              /\ ui' = out.ui
              /\ disk' = out.disk
              /\ UNCHANGED <<pdf_file, ppt_title, outline_of, otherVars>>

NextSession == Upload \/ RemoveFile \/ EditTitle \/ ClickAnalyze \/ ClickGenerate

SpecSession == InitSession /\ [][NextSession]_vars

(* --------------------------- session claims ---------------------------- *)
\* C6: every temporary file created while serializing a deck is deleted
\* within the same 'Generate PowerPoint' interaction on all exit paths; no
\* interaction ends with a temporary file left on disk.
C6_NoTempFileLeft == disk = {}

StepFailures == {InsufficientText, GenerationFailed, "PPT creation failed"}

\* C7: a step that fails (insufficient extraction, generation failure, deck
\* rendering failure) leaves the extracted text and the outline stored by
\* earlier steps present and unchanged.
C7_FailureKeepsState ==
    [][ui' \in StepFailures => session_state' = session_state]_vars

\* a failed step with both an extracted text and an outline in store
C7_Witness ==
    /\ ui \in StepFailures
    /\ session_state.pdf_text # None
    /\ session_state.slide_structure # None

\* C10: a deck is only built from an outline (possibly edited) that was
\* generated from the text of the PDF now uploaded, and only such an outline
\* is offered for editing.
C10_OutlineOfCurrentPdf ==
    /\ call # None => outline_of = Some(call[1].pdf_text)
    /\ EditorShown => outline_of = Upper(pdf_file, session_state).pdf_text

(* --------------------------- parser claims ----------------------------- *)
RECURSIVE SpansFrom(_, _, _)
SpansFrom(s, starts, pos) ==
    LET p == NextHeader(starts, pos)
    IN  IF p = 0 THEN <<>>
        ELSE <<<<p, HeaderEndAt(s, p)>>>> \o SpansFrom(s, starts, HeaderEndAt(s, p) + 1)

\* the <<first, last>> positions of the headers found in s, left to right
HeaderSpans(s) == SpansFrom(s, HeaderStarts(s), 1)

\* the text between the k-th header and the next header (or the end)
FragmentAfter(s, spans, k) ==
    SubSeq(s, spans[k][2] + 1,
           IF k < Len(spans) THEN spans[k + 1][1] - 1 ELSE Len(s))

\* C2: parse_gemini_structure returns exactly one record per header found in
\* the text, in header order, each built from the fragment that follows its
\* own header; text before the first header is discarded and a text without
\* headers (the empty text included) gives the empty list.
C2_OneRecordPerHeader ==
    parsed # None =>
        LET spans == HeaderSpans(slide_structure)
            recs == parsed[1]
        IN  /\ Len(recs) = Len(spans)
            /\ \A k \in 1..Len(spans) :
                  LET frag == FragmentAfter(slide_structure, spans, k)
                  IN  /\ recs[k].title = SlideTitle(frag, k - 1)
                      /\ recs[k].bullets = re_findall_bullets(frag, 1)

\* a parsed text with a discarded prefix and a header followed by a bullet
C2_Witness ==
    /\ parsed # None
    /\ Len(parsed[1]) = 1
    /\ HeaderSpans(slide_structure)[1][1] > 1
    /\ parsed[1][1].bullets # <<>>

\* C3: every record produced by parse_gemini_structure has a non-empty
\* title, also when the 'Title:' label is followed by no text.
C3_TitleNonEmpty ==
    parsed # None => \A k \in 1..Len(parsed[1]) : parsed[1][k].title # <<>>

RECURSIVE Lines(_, _)
\* the lines of s, cur being the line under construction
Lines(s, cur) ==
    IF s = <<>> THEN <<cur>>
    ELSE IF Head(s) = NL THEN <<cur>> \o Lines(Tail(s), <<>>)
    ELSE Lines(Tail(s), Append(cur, Head(s)))

Blank == {" ", "\t"}

\* a line of the form '* text', possibly indented
IsMarkerLine(line) ==
    LET t == LStrip(line, Blank)
    IN  Len(t) >= 2 /\ t[1] = "*" /\ t[2] \in Blank

MarkerLineText(line) == LStrip(Tail(LStrip(line, Blank)), Blank)

RECURSIVE BulletsOfLines(_)
BulletsOfLines(ls) ==
    IF ls = <<>> THEN <<>>
    ELSE (IF IsMarkerLine(Head(ls)) THEN <<MarkerLineText(Head(ls))>> ELSE <<>>)
         \o BulletsOfLines(Tail(ls))

\* C4: a record's bullets are exactly its fragment's bullet-marker lines
\* ('* text'), one bullet per such line, in order, duplicates kept; any
\* other line (a 'Title:' label line without a leading '* ') adds no bullet.
C4_BulletsAreMarkerLines ==
    parsed # None =>
        LET spans == HeaderSpans(slide_structure)
        IN  \A k \in 1..Len(parsed[1]) :
               k <= Len(spans) =>
                  parsed[1][k].bullets =
                      BulletsOfLines(Lines(FragmentAfter(slide_structure, spans, k), <<>>))

====
